---- MODULE Spec2Model ----
(***************************************************************************)
(* State-machine model of src/src/components/DataTable.tsx: the React      *)
(* component DataTableComponent with its two asynchronous control flows,   *)
(* fetchArtworks (page view) and handleSubmit (select N rows over pages).  *)
(* An Artwork is represented by its id, the dataKey of the table.          *)
(* A handler runs atomically from one await to the next, as JavaScript     *)
(* schedules it.                                                           *)
(***************************************************************************)
EXTENDS Integers, Sequences, FiniteSets, TLC

\* ------------------------------------------------------------------ bounds
MaxId == 2          \* artwork ids are 1..MaxId
MaxPageLen == 2     \* a page of the remote source holds at most this many rows
MaxPages == 3       \* the remote source has 1..MaxPages pages
MaxInputLen == 2    \* characters in the text field
MaxViewFetches == 2 \* page-view requests in flight at the same time

rowsPerPage == 12

Ids == 1..MaxId

\* ------------------------------------------------------- sequence helpers
Min(a, b) == IF a < b THEN a ELSE b

SeqsUpTo(S, n) == UNION {[1..k -> S] : k \in 0..n}

\* Array.prototype.slice(0, n) for n >= 0
slice(s, n) == SubSeq(s, 1, Min(n, Len(s)))

\* Array.prototype.some(selected => selected.id === a)
some(s, a) == \E i \in DOMAIN s : s[i] = a

RemoveAt(s, i) == SubSeq(s, 1, i - 1) \o SubSeq(s, i + 1, Len(s))

RECURSIVE SumLen(_)
SumLen(pages) ==
    IF pages = <<>> THEN 0 ELSE Len(Head(pages)) + SumLen(Tail(pages))

RECURSIVE Flatten(_)
Flatten(pages) ==
    IF pages = <<>> THEN <<>> ELSE Head(pages) \o Flatten(Tail(pages))

IdsOf(s) == {s[i] : i \in DOMAIN s}

NoDup(s) == \A i, j \in DOMAIN s : i # j => s[i] # s[j]

\* --------------------------------------------------------------- parseInt
\* The text field's value is a sequence of one-character strings.
Alphabet == {"0", "2", "-", "a"}

Texts == SeqsUpTo(Alphabet, MaxInputLen)

Digits == {"0", "1", "2", "3", "4", "5", "6", "7", "8", "9"}

WhiteSpace == {" "}

DigitVal(c) ==
    CASE c = "0" -> 0 [] c = "1" -> 1 [] c = "2" -> 2 [] c = "3" -> 3
      [] c = "4" -> 4 [] c = "5" -> 5 [] c = "6" -> 6 [] c = "7" -> 7
      [] c = "8" -> 8 [] c = "9" -> 9

RECURSIVE TrimLeft(_)
TrimLeft(s) ==
    IF s # <<>> /\ Head(s) \in WhiteSpace THEN TrimLeft(Tail(s)) ELSE s

RECURSIVE DigitPrefix(_)
DigitPrefix(s) ==
    IF s # <<>> /\ Head(s) \in Digits
    THEN <<Head(s)>> \o DigitPrefix(Tail(s))
    ELSE <<>>

RECURSIVE Decimal(_)
Decimal(ds) ==
    IF ds = <<>> THEN 0
    ELSE 10 * Decimal(SubSeq(ds, 1, Len(ds) - 1)) + DigitVal(ds[Len(ds)])

\* parseInt(text, 10): leading white space is skipped, then an optional sign,
\* then the longest run of decimal digits; whatever follows is ignored, and
\* no digit at all gives NaN.
parseInt(text) ==
    LET t == TrimLeft(text)
        signed == t # <<>> /\ Head(t) \in {"-", "+"}
        body == IF signed THEN Tail(t) ELSE t
        ds == DigitPrefix(body)
    IN  IF ds = <<>>
        THEN [nan |-> TRUE, val |-> 0]
        ELSE [nan |-> FALSE,
              val |-> IF signed /\ Head(t) = "-" THEN 0 - Decimal(ds)
                      ELSE Decimal(ds)]

isNaN(n) == n.nan

\* ---------------------------------------------------------- remote source
\* The remote API: a finite list of pages, each a list of artwork ids.
Sources == {s \in SeqsUpTo(SeqsUpTo(Ids, MaxPageLen), MaxPages) : Len(s) >= 1}

ResponseKinds == {"ok", "error", "nodata", "nopagination"}

VARIABLES
    source,              \* the pages the remote API serves
    mounted,             \* the mount effect has run
    artworks,            \* useState: rows displayed
    selectedArtworks,    \* useState: selection
    loading,             \* useState: page-loading flag
    overlayLoading,      \* useState: overlay-loading flag
    totalRecords,        \* useState
    currentPage,         \* useState
    inputValue, \* useState: text of the input field
    overlayVisible,      \* the OverlayPanel is shown
    viewFetches,         \* fetchArtworks calls awaiting axios.get, in call order
    viewPc,              \* fetchArtworks: where its latest completed call ended
    walkFetches,         \* pages handleSubmit awaits from axios.get
    pc,                  \* handleSubmit: position of its latest invocation
    numberOfItems,       \* handleSubmit local
    selectedItems,       \* handleSubmit local
    currentPageToFetch,  \* handleSubmit local
    data,                \* handleSubmit local: the latest response body
    remainingItemsToSelect, \* handleSubmit local
    requested,           \* pages the latest handleSubmit passed to axios.get
    lastRequestedPage,   \* history: the page of the latest fetchArtworks call
    batchOk,             \* history: every fetchArtworks call completed since the
                         \* view was last idle reached line 46
    selectionSetBy       \* history: who chose the rows of selectedArtworks, and
                         \* whether a walk replaced rows the user had chosen

vars == <<source, mounted, artworks, selectedArtworks, loading, overlayLoading,
          totalRecords, currentPage, inputValue, overlayVisible, viewFetches,
          viewPc, walkFetches, pc, numberOfItems, selectedItems, currentPageToFetch, data,
          remainingItemsToSelect, requested, lastRequestedPage, batchOk,
          selectionSetBy>>

viewVars == <<artworks, loading, totalRecords, currentPage, viewFetches, viewPc,
              lastRequestedPage, batchOk>>

walkVars == <<walkFetches, pc, numberOfItems, selectedItems, currentPageToFetch, data,
              remainingItemsToSelect, requested>>

NoData == [kind |-> "none", items |-> <<>>, current_page |-> 0, total_pages |-> 0,
           total |-> 0]

\* GET /artworks?page=p as the remote API answers it; kind says how the
\* request ends: a full body, a rejected request, a body without data, or
\* a body with data but without pagination.
Response(kind, p) ==
    [kind |-> kind,
     items |-> IF kind \in {"ok", "nopagination"} /\ p <= Len(source)
               THEN source[p] ELSE <<>>,
     current_page |-> IF kind = "ok" THEN p ELSE 0,
     total_pages |-> IF kind = "ok" THEN Len(source) ELSE 0,
     total |-> IF kind = "ok" THEN SumLen(source) ELSE 0]

Init ==
    /\ source \in Sources
    /\ mounted = FALSE
    /\ artworks = <<>>
    /\ selectedArtworks = <<>>
    /\ loading = FALSE
    /\ overlayLoading = FALSE
    /\ totalRecords = 0
    /\ currentPage = 1
    /\ inputValue = <<>>
    /\ overlayVisible = FALSE
    /\ viewFetches = <<>>
    /\ viewPc = "none"
    /\ walkFetches = {}
    /\ pc = "idle"
    /\ numberOfItems = 0
    /\ selectedItems = <<>>
    /\ currentPageToFetch = 1
    /\ data = NoData
    /\ remainingItemsToSelect = 0
    /\ requested = <<>>
    /\ lastRequestedPage = 0
    /\ batchOk = TRUE
    /\ selectionSetBy = "none"

\* ------------------------------------------------------------- page view
\* first={(currentPage - 1) * rowsPerPage}: the table's first-row offset
first == (currentPage - 1) * rowsPerPage

\* fetchArtworks up to its await: setLoading(true), axios.get(page); the
\* number of calls in flight is capped at MaxViewFetches
fetchArtworks(page) ==
    /\ Len(viewFetches) < MaxViewFetches
    /\ loading' = TRUE
    /\ viewFetches' = Append(viewFetches, page)
    /\ lastRequestedPage' = page
    /\ batchOk' = IF viewFetches = <<>> THEN TRUE ELSE batchOk
    /\ UNCHANGED <<artworks, totalRecords, currentPage, viewPc>>

\* useEffect(() => fetchArtworks(currentPage), [])
Mount ==
    /\ ~mounted
    /\ mounted' = TRUE
    /\ fetchArtworks(currentPage)
    /\ UNCHANGED <<source, selectedArtworks, selectionSetBy, overlayLoading,
                   inputValue, overlayVisible, walkVars>>

\* A page change that passes the zero-based index on as the page number.
onPageChange_zeroBased(event) ==
    /\ mounted
    /\ LET nextPage == IF event.hasPage THEN event.page ELSE 0
       IN  fetchArtworks(nextPage)
    /\ UNCHANGED <<source, mounted, selectedArtworks, selectionSetBy, overlayLoading,
                   inputValue, overlayVisible, walkVars>>

\* onPage of the table; event.page may be missing (event.page ?? 0)
onPageChange(event) ==
    /\ mounted
    /\ LET nextPage == (IF event.hasPage THEN event.page ELSE 0) + 1
       IN  fetchArtworks(nextPage)
    /\ UNCHANGED <<source, mounted, selectedArtworks, selectionSetBy, overlayLoading,
                   inputValue, overlayVisible, walkVars>>

\* fetchArtworks from the await on, for the i-th call in flight
fetchArtworksResume(i, kind) ==
    /\ i \in DOMAIN viewFetches
    /\ LET response == Response(kind, viewFetches[i])
       IN  /\ artworks' = IF kind \in {"ok", "nopagination"}
                          THEN response.items ELSE artworks
           /\ totalRecords' = IF kind = "ok" THEN response.total ELSE totalRecords
           /\ currentPage' = IF kind = "ok" THEN response.current_page
                             ELSE currentPage
    /\ viewPc' = CASE kind = "ok" -> "L46"
                    [] kind = "nodata" -> "L43"
                    [] OTHER -> "L49"
    /\ loading' = FALSE
    /\ viewFetches' = RemoveAt(viewFetches, i)
    /\ batchOk' = (batchOk /\ kind = "ok")
    /\ UNCHANGED lastRequestedPage
    /\ UNCHANGED <<source, mounted, selectedArtworks, selectionSetBy, overlayLoading,
                   inputValue, overlayVisible, walkVars>>

\* onSelectionChange={(e) => setSelectedArtworks(e.value)}; the table builds
\* e.value by toggling the check box of displayed row i
onSelectionChange(i) ==
    /\ mounted
    /\ i \in DOMAIN artworks
    /\ LET row == artworks[i]
           value == IF some(selectedArtworks, row)
                    THEN SelectSeq(selectedArtworks, LAMBDA a : a # row)
                    ELSE Append(selectedArtworks, row)
       IN  /\ selectedArtworks' = value
           /\ selectionSetBy' = IF value # <<>> THEN "user" ELSE "none"
    /\ UNCHANGED <<source, mounted, overlayLoading, inputValue, overlayVisible,
                   viewVars, walkVars>>

\* ---------------------------------------------------------- overlay panel
\* onClick={(e) => overlayPanelRef.current?.toggle(e)}
toggleOverlay ==
    /\ mounted
    /\ overlayVisible' = ~overlayVisible
    /\ UNCHANGED <<source, mounted, selectedArtworks, selectionSetBy, overlayLoading,
                   inputValue, viewVars, walkVars>>

\* onChange={(e) => setInputValue(e.target.value)}; the field is rendered
\* only while overlayLoading is false
setInputValue(text) ==
    /\ mounted
    /\ overlayVisible
    /\ ~overlayLoading
    /\ text # inputValue
    /\ inputValue' = text
    /\ UNCHANGED <<source, mounted, selectedArtworks, selectionSetBy, overlayLoading,
                   overlayVisible, viewVars, walkVars>>

\* ------------------------------------------------------- select N rows
\* A walk that does not filter the page against the selected items.
uniqueItems_noFilter(artworksFromPage, selected) == artworksFromPage

\* lines 86-89: the page's rows whose id is not yet among the selected items
uniqueItems(artworksFromPage, selected) ==
    SelectSeq(artworksFromPage, LAMBDA artwork : ~some(selected, artwork))

\* A walk that appends every new row of the page, without slice(0, remaining).
appendItems_noSlice(selected, artworksFromPage, remaining) ==
    selected \o uniqueItems(artworksFromPage, selected)

\* lines 91-94
appendItems(selected, artworksFromPage, remaining) ==
    selected \o slice(uniqueItems(artworksFromPage, selected), remaining)

\* lines 97-100: data.pagination && current_page < total_pages
morePages(response) ==
    response.kind = "ok" /\ response.current_page < response.total_pages

\* A walk that advances its cursor by two.
nextPageToFetch_skip(page) == page + 2

\* line 101
nextPageToFetch(page) == page + 1

\* A walk that also moves on when the page's row count equals the need.
pageFallsShort_orEqual(artworksFromPage, remaining) ==
    Len(artworksFromPage) <= remaining

\* line 96
pageFallsShort(artworksFromPage, remaining) == Len(artworksFromPage) < remaining

\* line 76
loopCondition(selected, n) == Len(selected) < n

\* line 67
invalidInput(n) == isNaN(n) \/ n.val <= 0

\* A walk whose catch block returns instead of leaving the loop, so that
\* lines 119-121 are skipped after a rejected request.
finishWalk_returnInCatch(selected, at) ==
    /\ pc' = at
    /\ selectedArtworks' = IF at = "L114" THEN selectedArtworks ELSE selected
    /\ selectionSetBy' = IF at = "L114" THEN selectionSetBy
                         ELSE IF selectionSetBy = "user" THEN "walkOverUser"
                         ELSE "walk"
    /\ overlayLoading' = IF at = "L114" THEN overlayLoading ELSE FALSE
    /\ overlayVisible' = IF at = "L114" THEN overlayVisible ELSE FALSE
    /\ walkFetches' = walkFetches \ {currentPageToFetch}
    /\ UNCHANGED requested

\* A walk that clears the selection when a fetch fails.
finishWalk_clearOnFailure(selected, at) ==
    /\ pc' = at
    /\ selectedArtworks' = IF at \in {"L110", "L114"} THEN <<>> ELSE selected
    /\ selectionSetBy' = IF selectionSetBy = "user" THEN "walkOverUser" ELSE "walk"
    /\ overlayLoading' = FALSE
    /\ overlayVisible' = FALSE
    /\ walkFetches' = walkFetches \ {currentPageToFetch}
    /\ UNCHANGED requested

\* A walk that adds its rows to the selection it finds.
finishWalk_keepSelection(selected, at) ==
    /\ pc' = at
    /\ selectedArtworks' = selectedArtworks \o uniqueItems(selected, selectedArtworks)
    /\ selectionSetBy' = IF selectionSetBy = "user" THEN "walkOverUser" ELSE "walk"
    /\ overlayLoading' = FALSE
    /\ overlayVisible' = FALSE
    /\ walkFetches' = walkFetches \ {currentPageToFetch}
    /\ UNCHANGED requested

\* lines 119-121, reached from every exit of the loop
finishWalk(selected, at) ==
    /\ pc' = at
    /\ selectedArtworks' = selected
    /\ selectionSetBy' = IF selectionSetBy = "user" THEN "walkOverUser" ELSE "walk"
    /\ overlayLoading' = FALSE
    /\ overlayVisible' = FALSE
    /\ walkFetches' = walkFetches \ {currentPageToFetch}
    /\ UNCHANGED requested

\* lines 76-80: the loop test and axios.get(currentPageToFetch)
requestPage(selected, page) ==
    IF loopCondition(selected, numberOfItems)
    THEN /\ pc' = "L78"
         /\ walkFetches' = (walkFetches \ {currentPageToFetch}) \cup {page}
         /\ requested' = Append(requested, page)
         /\ UNCHANGED <<selectedArtworks, selectionSetBy, overlayLoading, overlayVisible>>
    ELSE finishWalk(selected, "L76")

\* A walk that does not set the overlay-loading flag.
handleSubmit_flagNotSet ==
    /\ mounted
    /\ overlayVisible
    /\ ~overlayLoading
    /\ LET n == parseInt(inputValue)
       IN  IF invalidInput(n)
           THEN /\ pc' = "L68"
                /\ UNCHANGED <<selectedArtworks, selectionSetBy, overlayLoading,
                               overlayVisible, walkFetches, numberOfItems,
                               selectedItems, currentPageToFetch, data,
                               remainingItemsToSelect, requested>>
           ELSE /\ numberOfItems' = n.val
                /\ selectedItems' = <<>>
                /\ currentPageToFetch' = 1
                /\ data' = NoData
                /\ remainingItemsToSelect' = 0
                /\ pc' = "L78"
                /\ walkFetches' = walkFetches \cup {1}
                /\ requested' = <<1>>
                /\ UNCHANGED <<selectedArtworks, selectionSetBy, overlayLoading,
                               overlayVisible>>
    /\ UNCHANGED <<source, mounted, inputValue, viewVars>>

\* A walk that begins at the page the view displays.
handleSubmit_fromCurrentPage ==
    /\ mounted
    /\ overlayVisible
    /\ ~overlayLoading
    /\ LET n == parseInt(inputValue)
       IN  IF invalidInput(n)
           THEN /\ pc' = "L68"
                /\ UNCHANGED <<selectedArtworks, selectionSetBy, overlayLoading,
                               overlayVisible, walkFetches, numberOfItems,
                               selectedItems, currentPageToFetch, data,
                               remainingItemsToSelect, requested>>
           ELSE /\ numberOfItems' = n.val
                /\ overlayLoading' = TRUE
                /\ selectedItems' = <<>>
                /\ currentPageToFetch' = currentPage
                /\ data' = NoData
                /\ remainingItemsToSelect' = 0
                /\ pc' = "L78"
                /\ walkFetches' = walkFetches \cup {currentPage}
                /\ requested' = <<currentPage>>
                /\ UNCHANGED <<selectedArtworks, selectionSetBy, overlayVisible>>
    /\ UNCHANGED <<source, mounted, inputValue, viewVars>>

\* handleSubmit from the click to its first await (lines 64-80)
handleSubmit ==
    /\ mounted
    /\ overlayVisible
    /\ ~overlayLoading
    /\ LET n == parseInt(inputValue)
       IN  IF invalidInput(n)
           THEN /\ pc' = "L68"
                /\ UNCHANGED <<selectedArtworks, selectionSetBy, overlayLoading, overlayVisible,
                               walkFetches, numberOfItems, selectedItems,
                               currentPageToFetch, data, remainingItemsToSelect,
                               requested>>
           ELSE /\ numberOfItems' = n.val
                /\ overlayLoading' = TRUE
                /\ selectedItems' = <<>>
                /\ currentPageToFetch' = 1
                /\ data' = NoData
                /\ remainingItemsToSelect' = 0
                /\ pc' = "L78"
                /\ walkFetches' = walkFetches \cup {1}
                /\ requested' = <<1>>
                /\ UNCHANGED <<selectedArtworks, selectionSetBy, overlayVisible>>
    /\ UNCHANGED <<source, mounted, inputValue, viewVars>>

\* handleSubmit from the await of line 78 to the next await or to its end
handleSubmitResume(kind) ==
    /\ pc = "L78"
    /\ currentPageToFetch \in walkFetches
    /\ LET response == Response(kind, currentPageToFetch)
           remaining == numberOfItems - Len(selectedItems)
           selected == appendItems(selectedItems, response.items, remaining)
       IN  CASE kind = "error" ->
                  /\ finishWalk(selectedItems, "L114")
                  /\ UNCHANGED <<selectedItems, currentPageToFetch, data,
                                 remainingItemsToSelect>>
             [] kind = "nodata" ->
                  /\ data' = response
                  /\ finishWalk(selectedItems, "L110")
                  /\ UNCHANGED <<selectedItems, currentPageToFetch,
                                 remainingItemsToSelect>>
             [] OTHER ->
                  /\ data' = response
                  /\ remainingItemsToSelect' = remaining
                  /\ selectedItems' = selected
                  /\ IF pageFallsShort(response.items, remaining)
                     THEN IF morePages(response)
                          THEN /\ currentPageToFetch' =
                                      nextPageToFetch(currentPageToFetch)
                               /\ requestPage(selected,
                                      nextPageToFetch(currentPageToFetch))
                          ELSE /\ finishWalk(selected, "L103")
                               /\ UNCHANGED currentPageToFetch
                     ELSE /\ finishWalk(selected, "L107")
                          /\ UNCHANGED currentPageToFetch
    /\ UNCHANGED <<source, mounted, numberOfItems, inputValue, viewVars>>

\* ------------------------------------------------------------------ system
\* DataTableStateEvent: a zero-based page index, or none
PageEvents ==
    {[hasPage |-> TRUE, page |-> p] : p \in 0..MaxPages - 1}
        \cup {[hasPage |-> FALSE, page |-> 0]}

Next ==
    \/ Mount
    \/ \E event \in PageEvents : onPageChange(event)
    \/ \E i \in 1..MaxViewFetches, kind \in ResponseKinds :
          fetchArtworksResume(i, kind)
    \/ \E i \in 1..MaxPageLen : onSelectionChange(i)
    \/ toggleOverlay
    \/ \E text \in Texts : setInputValue(text)
    \/ handleSubmit
    \/ \E kind \in ResponseKinds : handleSubmitResume(kind)

Spec == Init /\ [][Next]_vars

\* The selector alone: the view stays as the mount left it.
SelectorNext ==
    \/ Mount
    \/ toggleOverlay
    \/ \E text \in Texts : setInputValue(text)
    \/ handleSubmit
    \/ \E kind \in ResponseKinds : handleSubmitResume(kind)

SelectorSpec == Init /\ [][SelectorNext]_vars

\* The page view alone.
ViewNext ==
    \/ Mount
    \/ \E event \in PageEvents : onPageChange(event)
    \/ \E i \in 1..MaxViewFetches, kind \in ResponseKinds :
          fetchArtworksResume(i, kind)
    \/ \E i \in 1..MaxPageLen : onSelectionChange(i)

ViewSpec == Init /\ [][ViewNext]_vars

\* Paging alone: no selection is made.
PagingNext ==
    \/ Mount
    \/ \E event \in PageEvents : onPageChange(event)
    \/ \E i \in 1..MaxViewFetches, kind \in ResponseKinds :
          fetchArtworksResume(i, kind)

PagingSpec == Init /\ [][PagingNext]_vars

\* Every request of a walk is answered or rejected in the end.
FairSelectorSpec ==
    SelectorSpec /\ WF_vars(\E kind \in ResponseKinds : handleSubmitResume(kind))

\* The whole component, on sources of fewer than MaxPages pages, with the
\* paginator's first two pages and the target 2 typed into the field.
ComponentInit == Init /\ Len(source) < MaxPages

ComponentNext ==
    \/ Mount
    \/ \E event \in {e \in PageEvents : e.hasPage /\ e.page < MaxPages - 1} :
          onPageChange(event)
    \/ \E i \in 1..MaxViewFetches, kind \in ResponseKinds :
          fetchArtworksResume(i, kind)
    \/ \E i \in 1..MaxPageLen : onSelectionChange(i)
    \/ toggleOverlay
    \/ setInputValue(<<"2">>)
    \/ handleSubmit
    \/ \E kind \in ResponseKinds : handleSubmitResume(kind)

ComponentSpec == ComponentInit /\ [][ComponentNext]_vars

\* ================================================================= claims
\* The latest walk has ended (lines 119-121 have run).
WalkDone == pc \in {"L76", "L103", "L107", "L110", "L114"}

\* The latest walk has ended and every fetch it made returned a full body.
AllFetchesSucceeded == pc \in {"L76", "L103", "L107"} /\ data.kind = "ok"

\* The ids of a list, each once, in the order first met.
RECURSIVE FirstSeen(_)
FirstSeen(s) ==
    IF s = <<>> THEN <<>>
    ELSE LET rest == FirstSeen(SubSeq(s, 1, Len(s) - 1))
             last == s[Len(s)]
         IN  IF some(rest, last) THEN rest ELSE Append(rest, last)

\* The unique ids reachable by paging through the source from page 1.
SourceIds == IdsOf(Flatten(source))

\* A decimal numeral: an optional sign and one or more digits, nothing else.
IsNumeral(text) ==
    LET signed == text # <<>> /\ Head(text) \in {"-", "+"}
        body == IF signed THEN Tail(text) ELSE text
    IN  body # <<>> /\ \A i \in DOMAIN body : body[i] \in Digits

NumeralValue(text) ==
    IF Head(text) = "-" THEN 0 - Decimal(Tail(text))
    ELSE IF Head(text) = "+" THEN Decimal(Tail(text))
    ELSE Decimal(text)

\* The text is non-numeric or denotes a value <= 0.
InvalidTarget(text) == ~IsNumeral(text) \/ NumeralValue(text) <= 0

\* C1: whenever a walk whose fetches all succeeded has ended and the source
\* holds at least N unique ids, the walk's result is exactly the first N
\* unique ids of the source in first-seen order, and the selection is that
\* result.
C1_ExactlyNFirstSeen ==
    (AllFetchesSucceeded /\ Cardinality(SourceIds) >= numberOfItems)
        => /\ selectedItems = slice(FirstSeen(Flatten(source)), numberOfItems)
           /\ selectedArtworks = selectedItems

\* C2: whenever a walk whose fetches all succeeded has ended and N exceeds
\* the number of unique ids of the source, the result contains every unique
\* id of the source and the walk left through the exhaustion warning
\* (line 103).
C2_ExhaustionWarned ==
    (AllFetchesSucceeded /\ numberOfItems > Cardinality(SourceIds))
        => /\ IdsOf(selectedItems) = SourceIds
           /\ pc = "L103"

\* C3: the accumulator never holds the same id twice, and neither does the
\* selection a walk sets.
C3_NoDuplicateIds ==
    /\ NoDup(selectedItems)
    /\ WalkDone => NoDup(selectedArtworks)

\* C4: a step taken while no walk runs and the input text is non-numeric or
\* denotes a value <= 0 issues no fetch and starts no walk: the requested
\* pages, the fetches in flight, the selection and the overlay-loading flag
\* stay as they were.
C4_InvalidTextStartsNothing ==
    [][(~overlayLoading /\ InvalidTarget(inputValue))
          => /\ walkFetches' = walkFetches
             /\ requested' = requested
             /\ selectedArtworks' = selectedArtworks
             /\ overlayLoading' = overlayLoading]_vars

\* C5: a walk has at most one fetch in flight, the pages it has requested
\* are 1, 2, 3, ... in this order, and the fetch in flight is the one for
\* the page requested last.
C5_SequentialAscending ==
    /\ Cardinality(walkFetches) <= 1
    /\ requested = [k \in 1..Len(requested) |-> k]
    /\ pc = "L78" => walkFetches = {Len(requested)}
    /\ pc # "L78" => walkFetches = {}

C5_Witness == pc = "L78" /\ requested = <<1, 2, 3>> /\ walkFetches = {3}

\* C6: under FairSelectorSpec every walk that has started ends: the walk
\* leaves its loop, no fetch is left in flight, the overlay-loading flag is
\* false again and the selection is the walk's result.
C6_WalkTerminates ==
    (pc = "L78") ~> /\ WalkDone
                    /\ walkFetches = {}
                    /\ ~overlayLoading
                    /\ selectedArtworks = selectedItems

C6_Witness ==
    WalkDone /\ ~overlayLoading /\ requested = <<1, 2, 3>> /\ selectedItems # <<>>

\* C7: the step in which a fetch of a walk fails (a rejected request, line
\* 114, or a body without data, line 110) ends the walk: it requests no
\* page, leaves no fetch in flight, clears the overlay-loading flag and sets
\* the selection to the records accumulated before that fetch.
C7_FailureKeepsPartial ==
    [][(pc = "L78" /\ pc' \in {"L110", "L114"})
          => /\ selectedArtworks' = selectedItems
             /\ selectedItems' = selectedItems
             /\ requested' = requested
             /\ walkFetches' = {}
             /\ ~overlayLoading']_vars

C7_Witness ==
    /\ pc \in {"L110", "L114"}
    /\ requested = <<1, 2>>
    /\ selectedArtworks = source[1]
    /\ selectedArtworks # <<>>

\* C9: the accumulator of a walk with target N never holds more than N
\* records, and neither does the selection the walk has set.
C9_AtMostN ==
    /\ Len(selectedItems) <= numberOfItems
    /\ WalkDone => Len(selectedArtworks) <= numberOfItems

C9_Witness ==
    /\ pc = "L107"
    /\ Len(selectedArtworks) = numberOfItems
    /\ Len(uniqueItems(data.items, SubSeq(selectedItems, 1,
              numberOfItems - remainingItemsToSelect))) > remainingItemsToSelect

\* C10: a step of a walk that requests a further page follows a page whose
\* raw row count was below the remaining need and which reported
\* current_page < total_pages; so after a page with at least as many rows as
\* the remaining need nothing more is fetched.
C10_AdvanceOnlyWhenShort ==
    [][(pc = "L78" /\ requested' # requested)
          => /\ Len(data'.items) < numberOfItems - Len(selectedItems)
             /\ data'.current_page = currentPageToFetch
             /\ data'.current_page < data'.total_pages
             /\ requested' = Append(requested, currentPageToFetch + 1)]_vars

\* The walk stopped after a page that was full by raw count although
\* deduplication left the result short of N and more pages exist.
C10_Witness ==
    /\ pc = "L107"
    /\ walkFetches = {}
    /\ Len(data.items) >= remainingItemsToSelect
    /\ Len(selectedItems) < numberOfItems
    /\ data.current_page < data.total_pages

\* C8: the step in which a page-view fetch fails (a rejected request or a
\* malformed body) clears the page-loading flag and changes none of the
\* displayed rows, the total record count and the current page marker.
C8_FailedViewFetchNoUpdate ==
    [][(Len(viewFetches') < Len(viewFetches) /\ viewPc' \in {"L43", "L49"})
          => /\ ~loading'
             /\ artworks' = artworks
             /\ totalRecords' = totalRecords
             /\ currentPage' = currentPage]_vars

\* The first n rows of a page whose id is not in the set seen, in page order.
RECURSIVE TakeNew(_, _, _)
TakeNew(page, seen, n) ==
    IF page = <<>> \/ n <= 0 THEN <<>>
    ELSE IF Head(page) \in seen THEN TakeNew(Tail(page), seen, n)
    ELSE <<Head(page)>> \o TakeNew(Tail(page), seen, n - 1)

\* The step of a walk that processes a page (lines 84-94).
ProcessesPage ==
    /\ pc = "L78"
    /\ pc' \notin {"L110", "L114"}
    /\ pc' # "L78" \/ requested' # requested

\* C11: the step of a walk that processes a page keeps the accumulator as a
\* prefix of the new accumulator (nothing removed or reordered), appends no
\* id the accumulator already held, and appends exactly the first
\* `remaining` rows of the page whose id the accumulator did not hold, in
\* the page's order.
C11_AppendFirstUnseen ==
    [][ProcessesPage
          => LET page == data'.items
                 remaining == numberOfItems - Len(selectedItems)
                 appended == SubSeq(selectedItems', Len(selectedItems) + 1,
                                    Len(selectedItems'))
             IN  /\ Len(selectedItems') >= Len(selectedItems)
                 /\ SubSeq(selectedItems', 1, Len(selectedItems)) = selectedItems
                 /\ IdsOf(appended) \cap IdsOf(selectedItems) = {}
                 /\ appended = TakeNew(page, IdsOf(selectedItems), remaining)]_vars

\* A second page that repeated an id of the accumulator and brought a new one.
C11_Witness ==
    LET before == SubSeq(selectedItems, 1, numberOfItems - remainingItemsToSelect)
    IN  /\ WalkDone
        /\ data.current_page = 2
        /\ before # <<>>
        /\ IdsOf(data.items) \cap IdsOf(before) # {}
        /\ Len(selectedItems) > Len(before)

\* C12: a walk begins at page 1 whatever page the view displays, and no step
\* of a walk, from its start to its end, changes the displayed rows, the
\* total record count, the current page marker or the page-loading flag,
\* also while a page-view fetch is in flight.
C12_WalkLeavesViewAlone ==
    [][/\ walkVars' # walkVars
          => UNCHANGED <<artworks, totalRecords, currentPage, loading>>
       /\ pc # "L78" /\ pc' = "L78"
          => /\ requested' = <<1>>
             /\ currentPageToFetch' = 1
             /\ walkFetches' = {1}]_vars

C12_Witness ==
    /\ WalkDone
    /\ Len(requested) >= 2
    /\ requested[1] = 1
    /\ currentPage = 2
    /\ viewFetches # <<>>
    /\ loading
    /\ artworks # <<>>

\* C13: a page change with zero-based index p (none counts as 0) issues
\* exactly one fetch, for page p + 1, and changes nothing that is displayed;
\* when a fetch for page q = p + 1 succeeds, the first-row offset becomes
\* (q - 1) * rowsPerPage and the rows and the total are those of its response.
C13_PageChangeShowsPage ==
    [][/\ \A event \in PageEvents :
             onPageChange(event)
                => LET p == IF event.hasPage THEN event.page ELSE 0
                   IN  /\ viewFetches' = Append(viewFetches, p + 1)
                       /\ UNCHANGED <<artworks, totalRecords, currentPage>>
       /\ \A i \in DOMAIN viewFetches :
             viewFetches' = RemoveAt(viewFetches, i) /\ viewPc' = "L46"
                => LET response == Response("ok", viewFetches[i])
                   IN  /\ first' = (viewFetches[i] - 1) * rowsPerPage
                       /\ artworks' = response.items
                       /\ totalRecords' = response.total]_vars

C13_Witness ==
    /\ viewPc = "L46"
    /\ viewFetches = <<>>
    /\ lastRequestedPage = 2
    /\ first = rowsPerPage
    /\ Len(source) >= 2
    /\ artworks = source[2]
    /\ artworks # <<>>
    /\ totalRecords = SumLen(source)

\* C14: the page-loading flag is true in every state in which at least one
\* page-view fetch is still in flight, also when several calls overlap.
C14_LoadingWhileInFlight == viewFetches # <<>> => loading

\* C15: once every page-view fetch of a batch of overlapping calls has
\* completed successfully, the displayed rows and the current page marker
\* are those of the most recently requested page.
C15_LatestRequestShown ==
    mounted /\ viewFetches = <<>> /\ batchOk
        => /\ currentPage = lastRequestedPage
           /\ artworks = Response("ok", lastRequestedPage).items

\* C16: when a walk finishes, the selection is exactly the walk's
\* accumulator, whatever the selection held before; a walk whose first fetch
\* fails therefore leaves the selection empty.
C16_SelectionIsAccumulator ==
    [][pc = "L78" /\ pc' # "L78"
          => /\ selectedArtworks' = selectedItems'
             /\ requested = <<1>> /\ pc' \in {"L110", "L114"}
                   => selectedArtworks' = <<>>]_vars

C16_Witness ==
    /\ pc = "L114"
    /\ requested = <<1>>
    /\ selectionSetBy = "walkOverUser"
    /\ selectedArtworks = <<>>

\* C17: at most one walk is in flight: the overlay-loading flag is true
\* exactly from the start of a walk until the walk finishes, on every exit
\* path, and Submit is taken only while the flag is false.
C17_OneWalkAtATime ==
    /\ [](/\ Cardinality(walkFetches) <= 1
          /\ overlayLoading <=> pc = "L78"
          /\ overlayLoading <=> walkFetches # {})
    /\ [][/\ pc' = "L78" /\ (pc # "L78" \/ Len(requested') < Len(requested))
             => ~overlayLoading /\ overlayLoading'
          /\ pc = "L78" /\ pc' # "L78" => overlayLoading /\ ~overlayLoading'
          /\ pc' = "L68" /\ pc # "L68" => ~overlayLoading /\ ~overlayLoading']_vars

C17_Witness ==
    /\ pc = "L78"
    /\ requested = <<1, 2>>
    /\ overlayLoading
    /\ overlayVisible
    /\ ~ENABLED handleSubmit

====
